---- MODULE Spec2Model ----
(***************************************************************************)
(* A model of the product-catalog service of this repository, in its two   *)
(* variants: src/app.py ("app") and src/ethan_app_comments.py ("ethan").   *)
(* The state is the two tables, their id sequences, the clock, the tokens  *)
(* issued so far, the requests in flight, and the last statement run       *)
(* together with the response it gave, if any.  A handler runs one         *)
(* database statement per step: requests of other clients commit between   *)
(* the statements of a request.  An INSERT draws its id from the sequence  *)
(* at once and for every session; the row it writes is seen by the other   *)
(* sessions from the COMMIT on.                                            *)
(***************************************************************************)
EXTENDS Integers, Sequences, FiniteSets, TLC

VARIABLES
    variant,     \* which of the two source files is running
    tables,      \* TRUE once `flask create` has made the tables
    users,       \* the rows of the users table
    userSeq,     \* last value drawn from the users.id sequence
    products,    \* the rows of the products table
    productSeq,  \* last value drawn from the products.id sequence
    now,         \* the clock, in seconds
    tokens,      \* the access tokens issued so far
    pc,          \* per session: the statement it runs next
    pend,        \* per session: its request in flight and the rows it holds
    last         \* the last statement run: its request and the response given

vars == <<variant, tables, users, userSeq, products, productSeq, now, tokens, pc, pend, last>>

-----------------------------------------------------------------------------
(* Bounds of the model. *)

MaxUsers == 3
MaxProducts == 3
MaxTokens == 1
TickStep == 43200
MaxTime == 129600

Clients == {"c1", "c2"}

\* The database sessions: one per client's request, one for `flask seed` and
\* one for `flask drop`.
Sessions == Clients \cup {"seed", "drop"}

-----------------------------------------------------------------------------
(* JSON / Python values.  Every value carries its type, so that Python's    *)
(* truthiness and None are one definition for all of them.                 *)

Null == <<"null">>
S(s) == <<"str", s>>
N(n) == <<"num", n>>
B(b) == <<"bool", b>>

IsStr(v) == v[1] = "str"

\* Python truthiness: None, "", 0 and False are falsy.
Truthy(v) == v \notin {Null, S(""), N(0), B(FALSE)}

\* `x if x is not None else y`: only an absent or null value gives way.
OrNotNone(x, y) == IF x # Null THEN x ELSE y

\* `x or y`
Or(x, y) == IF Truthy(x) THEN x ELSE y

\* dict.get(key): None when the key is absent
Get(body, k) == IF k \in DOMAIN body THEN body[k] ELSE Null

\* dict.get(key, default)
GetOr(body, k, d) == IF k \in DOMAIN body THEN body[k] ELSE d

EmptyBody == [k \in {} |-> Null]

\* The record `r` restricted to the keys `ks`.
Restrict(r, ks) == [k \in ks |-> r[k]]

-----------------------------------------------------------------------------
(* str(user.id) and the database's cast of that text back to an integer.   *)

Digits == <<"0", "1", "2", "3", "4", "5", "6", "7", "8", "9">>

RECURSIVE Str(_)
Str(n) == IF n < 10 THEN <<Digits[n + 1]>>
          ELSE Str(n \div 10) \o <<Digits[(n % 10) + 1]>>

DigitValue(d) == (CHOOSE i \in 1..10 : Digits[i] = d) - 1

\* The digits of n as text, for f"... {product_id} ...".
RECURSIVE Text(_)
Text(n) == IF n < 10 THEN Digits[n + 1]
           ELSE Text(n \div 10) \o Digits[(n % 10) + 1]

RECURSIVE ParseInt(_)
ParseInt(s) == IF Len(s) = 1 THEN DigitValue(s[1])
               ELSE 10 * ParseInt(SubSeq(s, 1, Len(s) - 1)) + DigitValue(s[Len(s)])

-----------------------------------------------------------------------------
(* Responses. *)

Response(status, body) == [status |-> status, body |-> body]

\* An exception that leaves a handler: Flask answers 500 with its own page.
InternalServerError == Response(500, [html |-> "Internal Server Error"])

Served(op, req, r) == [op |-> op, req |-> req, status |-> r.status, body |-> r.body]

\* A statement of a request has run and the request goes on: no response yet.
Pending(op, req) == [op |-> op, req |-> req, status |-> 0, body |-> EmptyBody]

-----------------------------------------------------------------------------
(* The schemas: class User, class UserSchema.                               *)

UserNameColumn == IF variant = "app" THEN "name" ELSE "username"

UserFields == {"id", UserNameColumn, "email", "password", "is_admin"}

\* user_schema = UserSchema(exclude=["password"])
UserSchemaExclude == {"password"}

user_schema_dump(user) == Restrict(user, UserFields \ UserSchemaExclude)

\* nullable=False
UserNotNull == IF variant = "app" THEN {"email", "password"}
               ELSE {"username", "email", "password"}

\* unique=True
UserUnique == IF variant = "app" THEN {} ELSE {"username", "email"}

\* db.String(n): the longest text the column takes.
UserColumnLength ==
    IF variant = "app" THEN [name |-> 100] ELSE [username |-> 80, email |-> 120]

\* Whether a text of `row` is longer than its column.
TooLong(row, lengths) ==
    \E c \in DOMAIN lengths : IsStr(row[c]) /\ Len(row[c][2]) > lengths[c]

\* What the INSERT of `user` raises inside db.session.commit(), "" when it
\* succeeds: the constraints are checked against the rows committed so far.
UserInsertError(user) ==
    IF ~tables THEN "ProgrammingError"
    ELSE IF TooLong(user, UserColumnLength) THEN "DataError"
    ELSE IF \E c \in UserNotNull : user[c] = Null THEN "IntegrityError"
    ELSE IF \E c \in UserUnique : \E u \in users : u[c] = user[c] THEN "IntegrityError"
    ELSE ""

\* Whether the INSERT of `user` draws an id.  The database refuses a text
\* longer than its column while it plans the statement, before nextval of the
\* id sequence runs; every other refusal comes after the id is drawn.
UserInsertDraws(user) == tables /\ ~TooLong(user, UserColumnLength)

\* bcrypt: the salt is left out, the hash is a one-way image of the password.
generate_password_hash(password) == <<"bcrypt", password[2]>>

check_password_hash(pw_hash, password) == pw_hash = <<"bcrypt", password[2]>>

-----------------------------------------------------------------------------
(* Tokens: create_access_token and the check made by @jwt_required().       *)

JWT_SECRET_KEY == "secret"

Day == 86400

create_access_token(identity, expires_delta) ==
    [kind |-> "jwt", sub |-> identity, exp |-> now + expires_delta, key |-> JWT_SECRET_KEY]

NoToken == [kind |-> "none", sub |-> <<>>, exp |-> 0, key |-> ""]

\* A token signed with another key, for an admin's id and never expiring.
ForgedToken == [kind |-> "jwt", sub |-> Str(1), exp |-> MaxTime + Day + 1, key |-> "forged"]

\* @jwt_required() with the expiry of the token left unchecked.
jwt_required_ignoring_exp(tok) ==
    IF tok.kind = "none" THEN [status |-> 401, body |-> [msg |-> "Missing Authorization Header"]]
    ELSE IF tok.key # JWT_SECRET_KEY
    THEN [status |-> 422, body |-> [msg |-> "Signature verification failed"]]
    ELSE [status |-> 0, body |-> [msg |-> ""]]

\* @jwt_required() with a user lookup registered: a token whose subject has no
\* user row is turned away.
jwt_required_with_user_lookup(tok) ==
    IF tok.kind = "none" THEN Response(401, [msg |-> "Missing Authorization Header"])
    ELSE IF tok.key # JWT_SECRET_KEY THEN Response(422, [msg |-> "Signature verification failed"])
    ELSE IF tok.exp <= now THEN Response(401, [msg |-> "Token has expired"])
    ELSE IF {u \in users : u.id = ParseInt(tok.sub)} = {}
    THEN Response(401, [msg |-> "Error loading the user"])
    ELSE Response(0, [msg |-> ""])

\* The response of @jwt_required() when it turns the request away, and
\* a response of status 0 when the handler is entered.
jwt_required(tok) ==
    IF tok.kind = "none" THEN Response(401, [msg |-> "Missing Authorization Header"])
    ELSE IF tok.key # JWT_SECRET_KEY THEN Response(422, [msg |-> "Signature verification failed"])
    ELSE IF tok.exp <= now THEN Response(401, [msg |-> "Token has expired"])
    ELSE Response(0, [msg |-> ""])

get_jwt_identity(tok) == tok.sub

-----------------------------------------------------------------------------
(* The initial state: the process has started, `flask create` has not run.  *)

Init ==
    /\ variant \in {"app", "ethan"}
    /\ tables = FALSE
    /\ users = {}
    /\ userSeq = 0
    /\ products = {}
    /\ productSeq = 0
    /\ now = 0
    /\ tokens = {}
    /\ pc = [c \in Sessions |-> "idle"]
    /\ pend = [c \in Sessions |-> EmptyBody]
    /\ last = [op |-> "start", req |-> EmptyBody, status |-> 0, body |-> EmptyBody]

-----------------------------------------------------------------------------
(* CLI commands. *)

Cli(op) == [op |-> op, req |-> EmptyBody, status |-> 0, body |-> EmptyBody]

\* flask create / flask create_db: db.create_all()
create_tables ==
    /\ tables' = TRUE
    /\ last' = Cli("create")
    /\ UNCHANGED <<variant, users, userSeq, products, productSeq, now, tokens, pc, pend>>

\* The tables in the order in which the file defines their models: the order
\* in which the flush of a commit writes them.  app.py defines Product before
\* User, ethan User before Product.
TableOrder == IF variant = "app" THEN <<"products", "users">> ELSE <<"users", "products">>

\* db.drop_all() drops the tables in the reverse order.
DropOrder == <<TableOrder[2], TableOrder[1]>>

\* The tables locked by the open transaction of session s.  A session begins a
\* transaction with its first statement and ends it with its COMMIT or with
\* its answer; a statement locks the table it reads or writes until then.
\* The reads made for an answer after a COMMIT are a transaction of their own.
Holds(s) ==
    IF pc[s] \in {"register_email", "register_insert", "register_wait", "register_commit",
                  "login_email", "delete_select"}
    THEN {"users"}
    ELSE IF pc[s] \in {"create_commit", "update_commit", "seed_users"} THEN {"products"}
    ELSE IF pc[s] \in {"delete_commit", "seed_admin"} THEN {"users", "products"}
    ELSE IF pc[s] = "seed_commit"
    THEN IF variant = "app" THEN {"users", "products"} ELSE {"products"}
    ELSE IF pc[s] = "drop_commit" THEN {DropOrder[1]}
    ELSE {}

\* Some open transaction holds a lock on the table.
Locked(table) == \E s \in Sessions : table \in Holds(s)

\* `flask drop` has dropped the table and not committed yet: DROP TABLE holds
\* the lock that excludes every other, and a statement on the table waits.
Dropping(table) == pc["drop"] = "drop_commit" /\ table = DropOrder[1]

\* The table that the next statement of session s locks and s does not hold.
NextTable(s) ==
    IF pc[s] = "delete_select" THEN "products"
    ELSE IF pc[s] = "seed_users" THEN "users"
    ELSE ""

\* The sessions in a deadlock with `flask drop`: they hold the table that the
\* drop waits for, and their next statement waits for the table it has dropped.
Deadlocked ==
    {s \in Sessions : /\ pc["drop"] = "drop_commit"
                      /\ DropOrder[2] \in Holds(s)
                      /\ NextTable(s) = DropOrder[1]}

\* flask drop, first DROP TABLE of db.drop_all(): it waits for the open
\* transactions that hold a lock on the table.  Without tables db.drop_all()
\* finds nothing to drop.
drop_tables ==
    /\ pc["drop"] = "idle"
    /\ IF tables
       THEN /\ ~Locked(DropOrder[1])
            /\ pc' = [pc EXCEPT !["drop"] = "drop_commit"]
            /\ last' = Cli("drop_table")
       ELSE /\ pc' = pc
            /\ last' = Cli("drop")
    /\ UNCHANGED <<variant, tables, users, userSeq, products, productSeq, now, tokens, pend>>

\* flask drop, second DROP TABLE of db.drop_all() and its COMMIT: the tables
\* and their id sequences are gone.  The DROP waits for the open transactions
\* that hold a lock on the table; in a deadlock the database aborts one of the
\* two, here the drop, which leaves the tables as they are.
drop_commit ==
    /\ pc["drop"] = "drop_commit"
    /\ pc' = [pc EXCEPT !["drop"] = "idle"]
    /\ IF \E s \in Sessions \ {"drop"} : DropOrder[2] \in Holds(s)
       THEN /\ Deadlocked # {}
            /\ last' = Cli("drop_aborted")
            /\ UNCHANGED <<tables, users, userSeq, products, productSeq>>
       ELSE /\ tables' = FALSE
            /\ users' = {}
            /\ userSeq' = 0
            /\ products' = {}
            /\ productSeq' = 0
            /\ last' = Cli("drop")
    /\ UNCHANGED <<variant, now, tokens, pend>>

\* The rows `flask seed` adds; prices are written in cents (15.99 is 1599).
\* The users are in the order of db.session.add_all(users); each gets its id
\* from its own INSERT.
SeedUsers ==
    IF variant = "app"
    THEN <<[id |-> userSeq + 1, name |-> S("User 1"), email |-> S("user1@gmail.com"),
            password |-> generate_password_hash(S("123456")), is_admin |-> B(FALSE)],
           [id |-> userSeq + 1, name |-> Null, email |-> S("admin@gmail.com"),
            password |-> generate_password_hash(S("abc123")), is_admin |-> B(TRUE)]>>
    ELSE <<>>

SeedProducts ==
    IF variant = "app"
    THEN {[id |-> productSeq + 1, name |-> S("Fruits"), description |-> S("Fresh Fruits"),
           price |-> N(1599), stock |-> N(100)],
          [id |-> productSeq + 2, name |-> S("Vegetables"), description |-> S("Fresh Vegetables"),
           price |-> N(1099), stock |-> N(200)]}
    ELSE {[id |-> productSeq + 1, name |-> S("Fruit"), description |-> S("Fresh fruit"),
           price |-> N(1599), stock |-> N(100)],
          [id |-> productSeq + 2, name |-> S("Vegetable"), description |-> S("Fresh vegetable"),
           price |-> N(1099), stock |-> N(100)]}

\* `flask seed` goes on to the statement `label`, holding the rows it wrote.
SeedGoesOn(label, op, rows) ==
    /\ pc' = [pc EXCEPT !["seed"] = label]
    /\ pend' = [pend EXCEPT !["seed"] = [req |-> EmptyBody, obj |-> rows]]
    /\ last' = Cli(op)

\* `flask seed` ends.
SeedEnds(op) ==
    /\ pc' = [pc EXCEPT !["seed"] = "idle"]
    /\ pend' = [pend EXCEPT !["seed"] = EmptyBody]
    /\ last' = Cli(op)

\* The user ids a running `flask seed` has yet to draw.
SeedReserve ==
    IF pc["seed"] = "seed_users" THEN 2
    ELSE IF pc["seed"] = "seed_admin" THEN 1
    ELSE 0

\* flask seed, first INSERT of its db.session.commit(): the two products, in
\* one statement.  The ids are drawn here; the rows are shown by the COMMIT.
seed_tables ==
    /\ tables
    /\ pc["seed"] = "idle"
    /\ ~Dropping("products")
    /\ userSeq + Len(SeedUsers) <= MaxUsers
    /\ productSeq + 2 <= MaxProducts
    /\ productSeq' = productSeq + 2
    /\ SeedGoesOn(IF variant = "app" THEN "seed_users" ELSE "seed_commit",
                  "seed_insert_products", [users |-> {}, products |-> SeedProducts])
    /\ UNCHANGED <<variant, tables, users, userSeq, products, now, tokens>>

\* app.py flask seed, the INSERTs of the users in its db.session.commit(): the
\* two rows set different columns and are written by one INSERT each, "User 1"
\* first.  An INSERT in a deadlock with `flask drop` is aborted by the
\* database and the seed ends with nothing written.
seed_users ==
    /\ pc["seed"] \in {"seed_users", "seed_admin"}
    /\ IF "seed" \in Deadlocked
       THEN /\ userSeq' = userSeq
            /\ SeedEnds("seed_aborted")
       ELSE /\ userSeq' = userSeq + 1
            /\ IF pc["seed"] = "seed_users"
               THEN SeedGoesOn("seed_admin", "seed_insert_user",
                               [users |-> {SeedUsers[1]},
                                products |-> pend["seed"].obj.products])
               ELSE SeedGoesOn("seed_commit", "seed_insert_user",
                               [users |-> pend["seed"].obj.users \cup {SeedUsers[2]},
                                products |-> pend["seed"].obj.products])
    /\ UNCHANGED <<variant, tables, users, products, productSeq, now, tokens>>

\* flask seed, the COMMIT of its db.session.commit(): the rows are shown.
seed_commit ==
    /\ pc["seed"] = "seed_commit"
    /\ users' = users \cup pend["seed"].obj.users
    /\ products' = products \cup pend["seed"].obj.products
    /\ SeedEnds("seed")
    /\ UNCHANGED <<variant, tables, userSeq, productSeq, now, tokens>>

-----------------------------------------------------------------------------
(* Requests in flight.  Flask serves each request on a thread of its own   *)
(* and each database statement is a round trip of its own: what other      *)
(* requests commit between two statements of a handler is seen by the      *)
(* later one.                                                              *)

\* The request of client c goes on to the statement `label`, holding `obj`.
GoesOn(c, label, op, req, obj) ==
    /\ pc' = [pc EXCEPT ![c] = label]
    /\ pend' = [pend EXCEPT ![c] = [req |-> req, obj |-> obj]]
    /\ last' = Pending(op, req)

\* The request of client c is answered.
Answers(c, op, req, r) ==
    /\ pc' = [pc EXCEPT ![c] = "idle"]
    /\ pend' = [pend EXCEPT ![c] = EmptyBody]
    /\ last' = Served(op, req, r)

-----------------------------------------------------------------------------
(* POST /auth/register *)

\* is_admin = db.Column(db.Boolean, default=False): the default fills a None.
ColumnDefault(v, d) == IF v = Null THEN d ELSE v

\* register_user with is_admin read from the request body.
NewUserAppTakingIsAdmin(body_data) ==
    [id |-> userSeq + 1,
     name |-> Get(body_data, "name"),
     email |-> Get(body_data, "email"),
     password |-> generate_password_hash(Get(body_data, "password")),
     is_admin |-> ColumnDefault(Get(body_data, "is_admin"), B(FALSE))]

\* app.py: the row register_user builds from the request body.
NewUserApp(body_data) ==
    [id |-> userSeq + 1,
     name |-> Get(body_data, "name"),
     email |-> Get(body_data, "email"),
     password |-> generate_password_hash(Get(body_data, "password")),
     is_admin |-> ColumnDefault(Null, B(FALSE))]

\* app.py register_user up to the INSERT of db.session.commit(): the answer
\* it gives there, or status 0 when the row is written and the COMMIT follows.
RegisterUserResponse(body_data) ==
    IF ~Truthy(Get(body_data, "password")) THEN InternalServerError  \* ValueError
    ELSE LET err == UserInsertError(NewUserApp(body_data)) IN
         IF err = "" THEN Response(0, EmptyBody)
         ELSE IF err = "IntegrityError"
         THEN Response(400, [error |-> "Email address already exists"])
         ELSE InternalServerError

\* app.py register_user, first statement: the hash and the INSERT, which draws
\* the id.
register_user(c, body_data) ==
    /\ variant = "app"
    /\ pc[c] = "idle"
    /\ (Truthy(Get(body_data, "password")) /\ tables) =>
          (userSeq + SeedReserve < MaxUsers /\ ~Dropping("users"))
    /\ LET r == RegisterUserResponse(body_data)
           inserting == /\ Truthy(Get(body_data, "password"))
                        /\ UserInsertDraws(NewUserApp(body_data))
       IN /\ userSeq' = IF inserting THEN userSeq + 1 ELSE userSeq
          /\ IF r.status = 0
             THEN GoesOn(c, "register_commit", "register_insert", body_data,
                         NewUserApp(body_data))
             ELSE Answers(c, "register", body_data, r)
    /\ UNCHANGED <<variant, tables, users, products, productSeq, now, tokens>>

\* The COMMIT of db.session.commit() in register, both files: the row is shown
\* to the other sessions.
register_commit(c) ==
    /\ pc[c] = "register_commit"
    /\ users' = users \cup {pend[c].obj}
    /\ GoesOn(c, "register_dump", "register_commit", pend[c].req, pend[c].obj)
    /\ UNCHANGED <<variant, tables, userSeq, products, productSeq, now, tokens>>

\* The user row of the given id, as a set of at most one element.
UserRow(id) == {u \in users : u.id = id}

\* user_schema.dump(user) after the commit: the commit expired the object and
\* the dump reloads it; a row that is no longer there raises ObjectDeletedError.
\* The result is the name of the exception, "" when the row is reloaded.
ReloadUserError(user) ==
    IF ~tables THEN "ProgrammingError"
    ELSE IF UserRow(user.id) = {} THEN "ObjectDeletedError"
    ELSE ""

\* str(e) of an exception raised in ethan's register.  The text SQLAlchemy
\* gives to an error of the database holds, next to the name of the error,
\* the statement that failed and the parameters it was sent with.
ExceptionText(name, parameters) == [error |-> name, parameters |-> parameters]

\* The parameters of the INSERT of `user`: every column but the id, the
\* password column holding the hash.
InsertParameters(user) == Restrict(user, DOMAIN user \ {"id"})

\* What the register handler answers after its commit.  ethan's register
\* catches every exception and answers 500 with its text; ObjectDeletedError
\* is raised by the ORM and names no statement.
RegisterDump(user) ==
    LET err == ReloadUserError(user) IN
    IF err = "" THEN Response(201, user_schema_dump(CHOOSE u \in UserRow(user.id) : TRUE))
    ELSE IF variant = "app" THEN InternalServerError
    ELSE Response(500, [message |->
             ExceptionText(err, IF err = "ObjectDeletedError" THEN EmptyBody
                                ELSE [pk_1 |-> N(user.id)])])

\* Last statement of register in both files: the reload for the answer.
register_dump(c) ==
    /\ pc[c] = "register_dump"
    /\ ~Dropping("users")
    /\ Answers(c, "register", pend[c].req, RegisterDump(pend[c].obj))
    /\ UNCHANGED <<variant, tables, users, userSeq, products, productSeq, now, tokens>>

\* ethan_app_comments.py register, the checks made on the body alone: the
\* answer they give, or status 0 when the handler goes on to its queries.
RegisterValidates(data) ==
    LET username == Get(data, "username")
        email == Get(data, "email")
        password == Get(data, "password")
    IN  IF ~Truthy(username) \/ ~Truthy(email) \/ ~Truthy(password)
        THEN Response(400, [message |-> "Missing username, email, or password"])
        ELSE IF Len(password[2]) < 8
        THEN Response(400, [message |-> "Password must be at least 8 characters"])
        ELSE Response(0, [message |-> ""])

\* ethan register: User.query.filter_by(username=username).first()
UsernameQuery(data) ==
    IF ~tables
    THEN Response(500, [message |-> ExceptionText("ProgrammingError",
                                        [username_1 |-> Get(data, "username")])])
    ELSE IF \E u \in users : u.username = Get(data, "username")
    THEN Response(400, [message |-> "Username already exists"])
    ELSE Response(0, [message |-> ""])

\* ethan register: User.query.filter_by(email=email).first()
EmailQuery(data) ==
    IF ~tables
    THEN Response(500, [message |-> ExceptionText("ProgrammingError",
                                        [email_1 |-> Get(data, "email")])])
    ELSE IF \E u \in users : u.email = Get(data, "email")
    THEN Response(400, [message |-> "Email already exists"])
    ELSE Response(0, [message |-> ""])

\* The register requests of ethan that have not reached their INSERT yet.
InFlight == {c \in Clients : pc[c] \in {"register_email", "register_insert"}}

\* First statement of ethan's register: validation and the username query.
register_check(c, data) ==
    /\ variant = "ethan"
    /\ pc[c] = "idle"
    /\ RegisterValidates(data).status = 0 => ~Dropping("users")
    /\ LET v == RegisterValidates(data)
           r == IF v.status # 0 THEN v ELSE UsernameQuery(data)
       IN IF r.status = 0
          THEN /\ userSeq + Cardinality(InFlight) + SeedReserve < MaxUsers
               /\ GoesOn(c, "register_email", "register_check", data, Null)
          ELSE Answers(c, "register", data, r)
    /\ UNCHANGED <<variant, tables, users, userSeq, products, productSeq, now, tokens>>

\* Second statement of ethan's register: the email query.
register_check_email(c) ==
    /\ variant = "ethan"
    /\ pc[c] = "register_email"
    /\ LET data == pend[c].req
           r == EmailQuery(data)
       IN IF r.status = 0
          THEN GoesOn(c, "register_insert", "register_check_email", data, Null)
          ELSE Answers(c, "register", data, r)
    /\ UNCHANGED <<variant, tables, users, userSeq, products, productSeq, now, tokens>>

\* ethan: the row register builds from the request body.
NewUserEthan(data) ==
    [id |-> userSeq + 1,
     username |-> Get(data, "username"),
     email |-> Get(data, "email"),
     password |-> generate_password_hash(Get(data, "password")),
     is_admin |-> ColumnDefault(GetOr(data, "is_admin", B(FALSE)), B(FALSE))]

\* ethan register when the INSERT of `user` raised `err`: `except Exception
\* as e: return {"message": str(e)}, 500`.
RegisterInsertFailed(err, user) ==
    Response(500, [message |-> ExceptionText(err, InsertParameters(user))])

\* ethan register at the INSERT of db.session.commit(): the answer when it
\* raises, status 0 when the row is written.
RegisterCommitResponse(data) ==
    LET err == UserInsertError(NewUserEthan(data)) IN
    IF err = "" THEN Response(0, [message |-> ""])
    ELSE RegisterInsertFailed(err, NewUserEthan(data))

\* The sessions other than c that have written, and not yet committed, a user
\* row with a unique column equal to that of `user`.  An INSERT of `user`
\* waits for their COMMIT.
Uncommitted(c, user) ==
    {d \in Clients \ {c} :
        /\ pc[d] = "register_commit"
        /\ \E k \in UserUnique : pend[d].obj[k] = user[k]}

\* Third statement of ethan's register: the hash and the INSERT, which draws
\* the id, unless a text is too long for its column, and then checks the
\* constraints.
register_insert(c) ==
    /\ variant = "ethan"
    /\ pc[c] = "register_insert"
    /\ LET data == pend[c].req
           r == RegisterCommitResponse(data)
       IN /\ userSeq' = IF UserInsertDraws(NewUserEthan(data)) THEN userSeq + 1 ELSE userSeq
          /\ IF r.status # 0 THEN Answers(c, "register", data, r)
             ELSE IF Uncommitted(c, NewUserEthan(data)) # {}
             THEN GoesOn(c, "register_wait", "register_insert", data, NewUserEthan(data))
             ELSE GoesOn(c, "register_commit", "register_insert", data, NewUserEthan(data))
    /\ UNCHANGED <<variant, tables, users, products, productSeq, now, tokens>>

\* The INSERT of ethan's register that waited: the other transaction has
\* committed and the constraints are checked against its row.
register_insert_wait(c) ==
    /\ variant = "ethan"
    /\ pc[c] = "register_wait"
    /\ Uncommitted(c, pend[c].obj) = {}
    /\ LET data == pend[c].req
           err == UserInsertError(pend[c].obj)
       IN IF err # "" THEN Answers(c, "register", data, RegisterInsertFailed(err, pend[c].obj))
          ELSE GoesOn(c, "register_commit", "register_insert", data, pend[c].obj)
    /\ UNCHANGED <<variant, tables, users, userSeq, products, productSeq, now, tokens>>

-----------------------------------------------------------------------------
(* POST /auth/login *)

LoginOk(user) ==
    Response(200, [token |-> create_access_token(Str(user.id), Day),
                   email |-> user.email,
                   is_admin |-> user.is_admin])

\* app.py login_user: the answers it can give.  db.session.scalar(stmt) takes
\* the first row the database returns; with several rows of that email and
\* no ORDER BY, any of them can be first.
LoginUserResponses(body_data) ==
    IF ~tables THEN {InternalServerError}
    ELSE LET found == {u \in users : u.email = Get(body_data, "email")}
             password == Get(body_data, "password")
         IN  IF found = {}
             THEN {Response(401, [error |-> "Invalid email or password"])}
             ELSE {IF ~IsStr(password) THEN InternalServerError  \* TypeError in bcrypt
                   ELSE IF check_password_hash(user.password, password) THEN LoginOk(user)
                   ELSE Response(401, [error |-> "Invalid email or password"])
                   : user \in found}

\* ethan login, `if not user:`
UserNotFound == Response(401, [message |-> "Invalid username or password"])

PasswordMismatchNamed == Response(401, [message |-> "Invalid password"])

\* ethan login, `if not bcrypt.check_password_hash(user.password, password):`
PasswordMismatch == Response(401, [message |-> "Invalid username or password"])

\* ethan login, the checks made on the body alone.
LoginValidates(data) ==
    IF ~Truthy(Get(data, "username")) /\ ~Truthy(Get(data, "email"))
    THEN Response(400, [message |-> "Missing username or email"])
    ELSE IF ~Truthy(Get(data, "password"))
    THEN Response(400, [message |-> "Missing password"])
    ELSE Response(0, [message |-> ""])

\* ethan login once a row is found: the password check and the token.
LoginFound(user, password) ==
    IF ~check_password_hash(user.password, password) THEN PasswordMismatch
    ELSE LoginOk(user)

\* ethan login, first statement: the checks and the query by username.  The
\* answers it can give, or status 0 when no row has that username.
LoginByUsername(data) ==
    IF LoginValidates(data).status # 0 THEN {LoginValidates(data)}
    ELSE IF ~tables THEN {InternalServerError}
    ELSE LET by_username == {u \in users : u.username = Get(data, "username")} IN
         IF by_username = {} THEN {Response(0, [message |-> ""])}
         ELSE {LoginFound(user, Get(data, "password")) : user \in by_username}

\* ethan login, second statement: the query by email.
LoginByEmail(data) ==
    IF ~tables THEN {InternalServerError}
    ELSE LET by_email == {u \in users : u.email = Get(data, "email")} IN
         IF by_email = {} THEN {UserNotFound}
         ELSE {LoginFound(user, Get(data, "password")) : user \in by_email}

\* ethan login with nothing between its two queries.
LoginResponsesEthan(data) ==
    IF Response(0, [message |-> ""]) \in LoginByUsername(data) THEN LoginByEmail(data)
    ELSE LoginByUsername(data)

\* The answers of a login request that runs with nothing in between.
LoginResponses(body) ==
    IF variant = "app" THEN LoginUserResponses(body) ELSE LoginResponsesEthan(body)

\* The clients keep the tokens they are given, the newest MaxTokens of them at
\* most: a token dropped by its client is a token no request carries.
Keep(held, token) ==
    IF Cardinality(held \cup {token}) <= MaxTokens THEN held \cup {token}
    ELSE {token} \cup (held \ {CHOOSE t \in held : \A o \in held : t.exp <= o.exp})

\* login_user of app.py, one statement; login of ethan up to its first query.
login(c, body) ==
    /\ pc[c] = "idle"
    /\ (variant = "ethan" => LoginValidates(body).status = 0) => ~Dropping("users")
    /\ \E r \in (IF variant = "app" THEN LoginUserResponses(body) ELSE LoginByUsername(body)) :
          IF r.status = 0
          THEN /\ tokens' = tokens
               /\ GoesOn(c, "login_email", "login_by_username", body, Null)
          ELSE /\ tokens' = IF r.status = 200 THEN Keep(tokens, r.body.token) ELSE tokens
               /\ Answers(c, "login", body, r)
    /\ UNCHANGED <<variant, tables, users, userSeq, products, productSeq, now>>

\* Second statement of ethan's login: the query by email and the answer.
login_by_email(c) ==
    /\ variant = "ethan"
    /\ pc[c] = "login_email"
    /\ \E r \in LoginByEmail(pend[c].req) :
          /\ tokens' = IF r.status = 200 THEN Keep(tokens, r.body.token) ELSE tokens
          /\ Answers(c, "login", pend[c].req, r)
    /\ UNCHANGED <<variant, tables, users, userSeq, products, productSeq, now>>

-----------------------------------------------------------------------------
(* The products table: class Product, class ProductSchema.                  *)

ProductFields == {"id", "name", "description", "price", "stock"}

ProductColumns == {"name", "description", "price", "stock"}

product_schema_dump(product) == Restrict(product, ProductFields)

products_schema_dump(rows) == {product_schema_dump(p) : p \in rows}

\* nullable=False
ProductNotNull == IF variant = "app" THEN {"name"} ELSE {"name", "price"}

\* name = db.Column(db.String(100), ...) in both files
ProductColumnLength == [name |-> 100]

\* What db.session.commit() raises for the INSERT of `product`, "" when it succeeds.
ProductInsertError(product) ==
    IF ~tables THEN "ProgrammingError"
    ELSE IF TooLong(product, ProductColumnLength) THEN "DataError"
    ELSE IF \E c \in ProductNotNull : product[c] = Null THEN "IntegrityError"
    ELSE ""

\* Whether the INSERT of `product` draws an id: the length of a text is
\* checked while the statement is planned, before nextval runs.
ProductInsertDraws(product) == tables /\ ~TooLong(product, ProductColumnLength)

\* db.session.scalar(db.select(Product).filter_by(id=product_id)): the row, as a
\* set of at most one element.
ProductById(product_id) == {p \in products : p.id = product_id}

\* product_schema.load(body) of ethan: "" when the body loads, else what it
\* raises.  An unknown key and a null value are both refused.
LoadError(body) ==
    IF \E k \in DOMAIN body : k \notin ProductFields \/ body[k] = Null
    THEN "ValidationError"
    ELSE ""

\* data["name"], data["price"], ...: a key that is not there raises KeyError.
KeyError(data) == ProductColumns \ DOMAIN data # {}

-----------------------------------------------------------------------------
(* GET /products and GET /products/<id> *)

get_products ==
    /\ ~Dropping("products")
    /\ last' = Served("get_products", EmptyBody,
                      IF ~tables THEN InternalServerError
                      ELSE Response(200, products_schema_dump(products)))
    /\ UNCHANGED <<variant, tables, users, userSeq, products, productSeq, now, tokens, pc, pend>>

\* f"Product with id {product_id} does not exist"
DoesNotExist(product_id) ==
    [error |-> "Product with id " \o Text(product_id) \o " does not exist"]

\* app.py get_product
GetProductApp(product_id) ==
    IF ~tables THEN InternalServerError
    ELSE IF ProductById(product_id) # {}
    THEN Response(200, product_schema_dump(CHOOSE p \in ProductById(product_id) : TRUE))
    ELSE Response(404, DoesNotExist(product_id))

\* ethan get_product: product_schema.dump(None) raises nothing and gives {}.
GetProductEthan(product_id) ==
    IF ~tables THEN InternalServerError
    ELSE IF ProductById(product_id) # {}
    THEN Response(200, product_schema_dump(CHOOSE p \in ProductById(product_id) : TRUE))
    ELSE Response(200, EmptyBody)

GetProduct(product_id) ==
    IF variant = "app" THEN GetProductApp(product_id) ELSE GetProductEthan(product_id)

get_product(product_id) ==
    /\ ~Dropping("products")
    /\ last' = Served("get_product", [id |-> product_id], GetProduct(product_id))
    /\ UNCHANGED <<variant, tables, users, userSeq, products, productSeq, now, tokens, pc, pend>>

\* product_schema.dump(product) after a commit: the commit expired the object
\* and the dump reloads it; a row that is no longer there raises
\* ObjectDeletedError.
ReloadProduct(product, status) ==
    IF ~tables THEN InternalServerError
    ELSE IF ProductById(product.id) = {} THEN InternalServerError
    ELSE Response(status, product_schema_dump(CHOOSE p \in ProductById(product.id) : TRUE))

\* db.session.scalars(db.select(Product)) and products_schema.dump of it.
ListProducts(status) ==
    IF ~tables THEN InternalServerError
    ELSE Response(status, products_schema_dump(products))

-----------------------------------------------------------------------------
(* POST /products *)

\* add_product / create_product with the description of the body left out
\* of the row.
NewProductWithoutDescription(fields) ==
    [id |-> productSeq + 1,
     name |-> Get(fields, "name"),
     description |-> Null,
     price |-> Get(fields, "price"),
     stock |-> Get(fields, "stock")]

NewProduct(fields) ==
    [id |-> productSeq + 1,
     name |-> Get(fields, "name"),
     description |-> Get(fields, "description"),
     price |-> Get(fields, "price"),
     stock |-> Get(fields, "stock")]

\* Whether the handler reaches its INSERT (which draws an id from the sequence).
CreateInserts(tok, fields) ==
    /\ jwt_required(tok).status = 0
    /\ tables
    /\ variant = "ethan" => (LoadError(fields) = "" /\ ~KeyError(fields))

\* app.py add_product up to the INSERT of db.session.commit(): the answer it
\* gives there, or status 0 when the row is written and the COMMIT follows.
AddProduct(tok, product_fields) ==
    IF jwt_required(tok).status # 0 THEN jwt_required(tok)
    ELSE IF ProductInsertError(NewProduct(product_fields)) # "" THEN InternalServerError
    ELSE Response(0, EmptyBody)

\* ethan create_product up to the INSERT of db.session.commit().
CreateProduct(tok, json) ==
    IF jwt_required(tok).status # 0 THEN jwt_required(tok)
    ELSE IF LoadError(json) # "" THEN InternalServerError
    ELSE IF KeyError(json) THEN InternalServerError
    ELSE IF ProductInsertError(NewProduct(json)) # "" THEN InternalServerError
    ELSE Response(0, EmptyBody)

\* First statement of POST /products: the token check and the INSERT, which
\* draws the id unless the name is too long for its column.
create_product(c, tok, fields) ==
    /\ pc[c] = "idle"
    /\ CreateInserts(tok, fields) => (productSeq < MaxProducts /\ ~Dropping("products"))
    /\ LET r == IF variant = "app" THEN AddProduct(tok, fields) ELSE CreateProduct(tok, fields)
           req == [tok |-> tok, body |-> fields]
       IN /\ productSeq' = IF CreateInserts(tok, fields) /\ ProductInsertDraws(NewProduct(fields))
                          THEN productSeq + 1 ELSE productSeq
          /\ IF r.status = 0
             THEN GoesOn(c, "create_commit", "create_product_insert", req, NewProduct(fields))
             ELSE Answers(c, "create_product", req, r)
    /\ UNCHANGED <<variant, tables, users, userSeq, products, now, tokens>>

\* The COMMIT of db.session.commit() in POST /products: the row is shown to
\* the other sessions.
create_product_commit(c) ==
    /\ pc[c] = "create_commit"
    /\ products' = products \cup {pend[c].obj}
    /\ GoesOn(c, "create_dump", "create_product_commit", pend[c].req, pend[c].obj)
    /\ UNCHANGED <<variant, tables, users, userSeq, productSeq, now, tokens>>

\* What POST /products answers after its commit: app.py dumps the new product,
\* which reloads it; ethan selects and dumps every product.
CreateDump(product) ==
    IF variant = "app" THEN ReloadProduct(product, 201) ELSE ListProducts(201)

\* Last statement of POST /products: the read the answer is built from.
create_product_dump(c) ==
    /\ pc[c] = "create_dump"
    /\ ~Dropping("products")
    /\ Answers(c, "create_product", pend[c].req, CreateDump(pend[c].obj))
    /\ UNCHANGED <<variant, tables, users, userSeq, products, productSeq, now, tokens>>

-----------------------------------------------------------------------------
(* PUT/PATCH /products/<id> *)

\* product.name = body_data.get("name") or product.name, and so on.
Updated(product, body_data) ==
    [id |-> product.id,
     name |-> Or(Get(body_data, "name"), product.name),
     description |-> Or(Get(body_data, "description"), product.description),
     price |-> Or(Get(body_data, "price"), product.price),
     stock |-> Or(Get(body_data, "stock"), product.stock)]

\* Whether @jwt_required() guards update_product: app.py line 311; ethan's
\* update_product carries no such decorator.
UpdateProtected == variant = "app"

UpdateGate(tok) == IF UpdateProtected THEN jwt_required(tok) ELSE Response(0, [msg |-> ""])

\* app.py update_product up to its SELECT: the answer it gives there, or
\* status 0 when the row is loaded.
UpdateProductApp(tok, product_id, body_data) ==
    IF UpdateGate(tok).status # 0 THEN UpdateGate(tok)
    ELSE IF ~tables THEN InternalServerError
    ELSE IF ProductById(product_id) # {} THEN Response(0, EmptyBody)
    ELSE Response(404, DoesNotExist(product_id))

\* ethan update_product up to its SELECT and the load of the body, of which it
\* reads all four keys.
UpdateProductEthan(tok, product_id, json) ==
    IF UpdateGate(tok).status # 0 THEN UpdateGate(tok)
    ELSE IF ~tables THEN InternalServerError
    ELSE IF ProductById(product_id) # {}
    THEN IF LoadError(json) # "" THEN InternalServerError
         ELSE IF KeyError(json) THEN InternalServerError
         ELSE Response(0, EmptyBody)
    ELSE Response(404, [message |-> "Product not found"])

UpdateProduct(tok, product_id, body) ==
    IF variant = "app" THEN UpdateProductApp(tok, product_id, body)
    ELSE UpdateProductEthan(tok, product_id, body)

\* First statement of PUT/PATCH: the token check and the SELECT of the row.
update_product(c, tok, product_id, body) ==
    /\ pc[c] = "idle"
    /\ UpdateGate(tok).status = 0 => ~Dropping("products")
    /\ LET r == UpdateProduct(tok, product_id, body)
           req == [tok |-> tok, id |-> product_id, body |-> body]
       IN IF r.status = 0
          THEN GoesOn(c, "update_commit", "update_product_select", req,
                      CHOOSE p \in ProductById(product_id) : TRUE)
          ELSE Answers(c, "update_product", req, r)
    /\ UNCHANGED <<variant, tables, users, userSeq, products, productSeq, now, tokens>>

\* The columns the assignments changed on the loaded object: db.session.commit()
\* writes these and no others, and writes nothing when there are none.
Changed(product, body) ==
    {k \in ProductColumns : Updated(product, body)[k] # product[k]}

\* What the UPDATE of db.session.commit() raises, "" when it succeeds or is not
\* sent: DataError when the new name is too long for its column, which the
\* database finds while it plans the statement, StaleDataError when the row is
\* no longer there.
UpdateError(product, body) ==
    IF Changed(product, body) = {} THEN ""
    ELSE IF ~tables THEN "ProgrammingError"
    ELSE IF TooLong(Updated(product, body), ProductColumnLength) THEN "DataError"
    ELSE IF ProductById(product.id) = {} THEN "StaleDataError"
    ELSE ""

\* The table after the UPDATE: the changed columns of the row are overwritten.
Written(product, body) ==
    {IF p.id = product.id
     THEN [k \in DOMAIN p |-> IF k \in Changed(product, body)
                              THEN Updated(product, body)[k] ELSE p[k]]
     ELSE p : p \in products}

\* Second statement of PUT/PATCH: the assignments and db.session.commit().
\* The UPDATE locks the row until the COMMIT that follows it, so no session
\* can change the row in between, and the others read the old row until the
\* COMMIT: the two are one step, taken at the COMMIT.
update_product_commit(c) ==
    /\ pc[c] = "update_commit"
    /\ LET req == pend[c].req
           product == pend[c].obj
       IN IF UpdateError(product, req.body) = ""
          THEN /\ products' = Written(product, req.body)
               /\ GoesOn(c, "update_dump", "update_product_commit", req, product)
          ELSE /\ products' = products
               /\ Answers(c, "update_product", req, InternalServerError)
    /\ UNCHANGED <<variant, tables, users, userSeq, productSeq, now, tokens>>

\* What PUT/PATCH answers after its commit: app.py dumps the product, which
\* reloads it; ethan selects and dumps every product.
UpdateDump(product) ==
    IF variant = "app" THEN ReloadProduct(product, 200) ELSE ListProducts(200)

\* Third statement of PUT/PATCH: the read the answer is built from.
update_product_dump(c) ==
    /\ pc[c] = "update_dump"
    /\ ~Dropping("products")
    /\ Answers(c, "update_product", pend[c].req, UpdateDump(pend[c].obj))
    /\ UNCHANGED <<variant, tables, users, userSeq, products, productSeq, now, tokens>>

-----------------------------------------------------------------------------
(* The admin check and DELETE /products/<id> *)

\* filter_by(id=identity): the database casts the token's text to an integer.
UserById(identity) == {u \in users : u.id = ParseInt(identity)}

\* app.py authoriseAsAdmin: `return user.is_admin`, which raises AttributeError
\* when no row was found.  The result is [raised, value].
authoriseAsAdmin(tok) ==
    IF ~tables THEN [raised |-> TRUE, value |-> Null]
    ELSE IF UserById(get_jwt_identity(tok)) = {} THEN [raised |-> TRUE, value |-> Null]
    ELSE [raised |-> FALSE,
          value |-> (CHOOSE u \in UserById(get_jwt_identity(tok)) : TRUE).is_admin]

\* ethan auth_as_admin: False when no row was found.
auth_as_admin(tok) ==
    IF ~tables THEN [raised |-> TRUE, value |-> Null]
    ELSE IF UserById(get_jwt_identity(tok)) = {} THEN [raised |-> FALSE, value |-> B(FALSE)]
    ELSE IF ~Truthy((CHOOSE u \in UserById(get_jwt_identity(tok)) : TRUE).is_admin)
    THEN [raised |-> FALSE, value |-> B(FALSE)]
    ELSE [raised |-> FALSE, value |-> B(TRUE)]

AuthAsAdmin(tok) == IF variant = "app" THEN authoriseAsAdmin(tok) ELSE auth_as_admin(tok)

NotAdmin ==
    IF variant = "app" THEN Response(403, [error |-> "Not authorised to delete a product"])
    ELSE Response(401, [message |-> "Unauthorized"])

\* delete_product up to the admin check: the answer it gives there, or status
\* 0 when the caller is taken for an admin.
DeleteAuth(tok) ==
    IF jwt_required(tok).status # 0 THEN jwt_required(tok)
    ELSE IF AuthAsAdmin(tok).raised THEN InternalServerError
    ELSE IF ~Truthy(AuthAsAdmin(tok).value) THEN NotAdmin
    ELSE Response(0, EmptyBody)

\* First statement of DELETE: the token check and the query of the admin check.
delete_product(c, tok, product_id) ==
    /\ pc[c] = "idle"
    /\ jwt_required(tok).status = 0 => ~Dropping("users")
    /\ LET r == DeleteAuth(tok)
           req == [tok |-> tok, id |-> product_id]
       IN IF r.status = 0
          THEN GoesOn(c, "delete_select", "delete_product_auth", req, Null)
          ELSE Answers(c, "delete_product", req, r)
    /\ UNCHANGED <<variant, tables, users, userSeq, products, productSeq, now, tokens>>

\* delete_product at its SELECT: the answer when no row is found, status 0
\* when the row is loaded.
DeleteSelect(product_id) ==
    IF ~tables THEN InternalServerError
    ELSE IF ProductById(product_id) # {} THEN Response(0, EmptyBody)
    ELSE IF variant = "app" THEN Response(404, DoesNotExist(product_id))
    ELSE Response(404, [message |-> "Product not found"])

\* Second statement of DELETE: the SELECT of the row.  When db.drop_all() has
\* dropped the products table and waits for the users table this request
\* holds, the two wait for each other; the database ends the wait by aborting
\* one of them, here this request, whose SELECT raises OperationalError.
delete_product_select(c) ==
    /\ pc[c] = "delete_select"
    /\ LET req == pend[c].req
           r == IF c \in Deadlocked THEN InternalServerError ELSE DeleteSelect(req.id)
       IN IF r.status = 0
          THEN GoesOn(c, "delete_commit", "delete_product_select", req,
                      CHOOSE p \in ProductById(req.id) : TRUE)
          ELSE Answers(c, "delete_product", req, r)
    /\ UNCHANGED <<variant, tables, users, userSeq, products, productSeq, now, tokens>>

\* delete_product after db.session.commit(): a DELETE that matches no row any
\* more raises nothing.
DeleteProduct(product_id) ==
    IF ~tables THEN InternalServerError
    ELSE IF variant = "app"
    THEN Response(200, [message |-> "Product with id " \o Text(product_id)
                                    \o " has been deleted."])
    ELSE Response(200, [message |-> "Product deleted"])

\* Third statement of DELETE: db.session.delete(product), commit, answer.
\* The DELETE locks the row until the COMMIT that follows it: the two are one
\* step, taken at the COMMIT.
delete_product_commit(c) ==
    /\ pc[c] = "delete_commit"
    /\ LET req == pend[c].req
           r == DeleteProduct(req.id)
       IN /\ products' = IF r.status = 200 THEN products \ ProductById(req.id) ELSE products
          /\ Answers(c, "delete_product", req, r)
    /\ UNCHANGED <<variant, tables, users, userSeq, productSeq, now, tokens>>

\* ethan GET /is_admin: str(auth_as_admin())
IsAdmin(tok) ==
    IF jwt_required(tok).status # 0 THEN jwt_required(tok)
    ELSE IF auth_as_admin(tok).raised THEN InternalServerError
    ELSE Response(200, [text |-> auth_as_admin(tok).value])

is_admin(tok) ==
    /\ variant = "ethan"
    /\ jwt_required(tok).status = 0 => ~Dropping("users")
    /\ last' = Served("is_admin", [tok |-> tok], IsAdmin(tok))
    /\ UNCHANGED <<variant, tables, users, userSeq, products, productSeq, now, tokens, pc, pend>>

-----------------------------------------------------------------------------
(* Time passes. *)

tick ==
    /\ now + TickStep <= MaxTime
    /\ now' = now + TickStep
    /\ last' = Cli("tick")
    /\ UNCHANGED <<variant, tables, users, userSeq, products, productSeq, tokens, pc, pend>>

-----------------------------------------------------------------------------
(* Request bodies.  A body is a JSON object: a function from the keys it    *)
(* holds to their values.  The sets below are the bodies the clients send. *)

Absent == <<"absent">>

\* The JSON object of the keys of `r` whose value is not Absent.
Body(r) == Restrict(r, {k \in DOMAIN r : r[k] # Absent})

Emails == {S("user1@gmail.com"), S("admin@gmail.com")}
Usernames == {S("ann"), S("bob")}

\* "abc123" has 6 characters, "12345678" has 8, "password9" has 9.
RegisterBodiesApp ==
    {Body(r) : r \in [email : {Absent} \cup Emails,
                      password : {Absent, S(""), S("abc123"), S("12345678")}]}

\* Complete bodies, one asking for is_admin, and one body for each way in
\* which ethan's register turns a request away.
RegisterBodiesEthan ==
    {[username |-> u, email |-> e, password |-> S("12345678")] : u \in Usernames, e \in Emails}
    \cup {[username |-> S("bob"), email |-> S("admin@gmail.com"),
           password |-> S("password9"), is_admin |-> B(TRUE)],
          [email |-> S("user1@gmail.com"), password |-> S("12345678")],
          [username |-> S("ann"), password |-> S("12345678")],
          [username |-> S("ann"), email |-> S("user1@gmail.com")],
          [username |-> S("ann"), email |-> S("user1@gmail.com"), password |-> S("abc123")]}

LoginBodiesApp ==
    {Body(r) : r \in [email : {Absent} \cup Emails,
                      password : {Absent, S(""), S("abc123"), S("12345678")}]}

LoginBodiesEthan ==
    {Body(r) : r \in [username : {Absent, S("ann")},
                      email : {Absent, S("user1@gmail.com"), S("admin@gmail.com")},
                      password : {Absent, S("12345678"), S("password9")}]}

LoginBodies == IF variant = "app" THEN LoginBodiesApp ELSE LoginBodiesEthan

-----------------------------------------------------------------------------
(* Registration and login, with the CLI commands. *)

Next ==
    \/ create_tables
    \/ drop_tables
    \/ drop_commit
    \/ seed_tables
    \/ seed_users
    \/ seed_commit
    \/ \E c \in Clients, body \in RegisterBodiesApp : register_user(c, body)
    \/ \E c \in Clients, body \in RegisterBodiesEthan : register_check(c, body)
    \/ \E c \in Clients : register_check_email(c)
    \/ \E c \in Clients : register_insert(c)
    \/ \E c \in Clients : register_insert_wait(c)
    \/ \E c \in Clients : register_commit(c)
    \/ \E c \in Clients : register_dump(c)
    \/ \E body \in LoginBodies : login("c1", body)
    \/ login_by_email("c1")

Spec == Init /\ [][Next]_vars

-----------------------------------------------------------------------------
(* Inputs of the product endpoints. *)

\* ethan has no seeded users: one ordinary user and one admin register.
RegisterBodiesCatalog ==
    {[username |-> S("ann"), email |-> S("user1@gmail.com"), password |-> S("12345678")],
     [username |-> S("bob"), email |-> S("admin@gmail.com"),
      password |-> S("password9"), is_admin |-> B(TRUE)]}

UserLogin ==
    IF variant = "app" THEN [email |-> S("user1@gmail.com"), password |-> S("123456")]
    ELSE [email |-> S("user1@gmail.com"), password |-> S("12345678")]

AdminLogin ==
    IF variant = "app" THEN [email |-> S("admin@gmail.com"), password |-> S("abc123")]
    ELSE [email |-> S("admin@gmail.com"), password |-> S("password9")]

FullBody ==
    [name |-> S("Nuts"), description |-> S("Mixed nuts"), price |-> N(599), stock |-> N(50)]

\* A complete body, two partial ones, an empty one, and a complete body of
\* falsy values.
ProductBodies ==
    {FullBody,
     [price |-> N(599)],
     [name |-> S("Nuts"), stock |-> N(50)],
     EmptyBody,
     [name |-> S(""), description |-> S(""), price |-> N(0), stock |-> N(0)]}

ProductIds == 1..MaxProducts

\* What a request can carry as its bearer token.
Bearers == {NoToken, ForgedToken} \cup tokens

-----------------------------------------------------------------------------
-----------------------------------------------------------------------------
(* Deleting and fetching products, as an ordinary user and as an admin.     *)

NextDelete ==
    \/ create_tables
    \/ drop_tables
    \/ drop_commit
    \/ seed_tables
    \/ seed_users
    \/ seed_commit
    \/ \E body \in RegisterBodiesCatalog : register_check("c1", body)
    \/ register_check_email("c1")
    \/ register_insert("c1")
    \/ register_commit("c1")
    \/ register_dump("c1")
    \/ \E body \in {UserLogin, AdminLogin} : login("c1", body)
    \/ login_by_email("c1")
    \/ \E id \in ProductIds : get_product(id)
    \/ \E c \in Clients, tok \in Bearers, id \in ProductIds : delete_product(c, tok, id)
    \/ \E c \in Clients : delete_product_select(c)
    \/ \E c \in Clients : delete_product_commit(c)
    \/ \E tok \in Bearers : is_admin(tok)

SpecDelete == Init /\ [][NextDelete]_vars

-----------------------------------------------------------------------------
(* Creating, updating and deleting products, with a token issued by login   *)
(* and with none.                                                          *)

NextCatalog ==
    \/ create_tables
    \/ seed_tables
    \/ seed_users
    \/ seed_commit
    \/ register_check("c1", AdminLogin @@ [username |-> S("bob"), is_admin |-> B(TRUE)])
    \/ register_check_email("c1")
    \/ register_insert("c1")
    \/ register_commit("c1")
    \/ register_dump("c1")
    \/ login("c1", AdminLogin)
    \/ login_by_email("c1")
    \/ get_products
    \/ \E tok \in {NoToken} \cup tokens, body \in ProductBodies : create_product("c1", tok, body)
    \/ \E tok \in tokens : create_product("c2", tok, FullBody)
    \/ \E c \in Clients : create_product_commit(c)
    \/ \E c \in Clients : create_product_dump(c)
    \/ \E tok \in {NoToken} \cup tokens, id \in ProductIds, body \in ProductBodies :
          update_product("c2", tok, id, body)
    \/ update_product_commit("c2")
    \/ update_product_dump("c2")
    \/ \E tok \in {NoToken} \cup tokens, id \in ProductIds : delete_product("c2", tok, id)
    \/ delete_product_select("c2")
    \/ delete_product_commit("c2")

SpecCatalog == Init /\ [][NextCatalog]_vars

-----------------------------------------------------------------------------
(* Tokens over time: a login, then requests to the protected endpoints as   *)
(* the clock advances.                                                     *)

NextExpiry ==
    \/ create_tables
    \/ seed_tables
    \/ seed_users
    \/ seed_commit
    \/ register_check("c1", AdminLogin @@ [username |-> S("bob"), is_admin |-> B(TRUE)])
    \/ register_check_email("c1")
    \/ register_insert("c1")
    \/ register_commit("c1")
    \/ register_dump("c1")
    \/ login("c1", AdminLogin)
    \/ login_by_email("c1")
    \/ \E tok \in Bearers : create_product("c1", tok, FullBody)
    \/ create_product_commit("c1")
    \/ create_product_dump("c1")
    \/ \E tok \in Bearers : update_product("c1", tok, 1, FullBody)
    \/ update_product_commit("c1")
    \/ update_product_dump("c1")
    \/ \E tok \in Bearers : delete_product("c2", tok, 1)
    \/ delete_product_select("c2")
    \/ delete_product_commit("c2")
    \/ \E tok \in Bearers : is_admin(tok)
    \/ tick

SpecExpiry == Init /\ [][NextExpiry]_vars

-----------------------------------------------------------------------------
(* Logging in while users register and products are created.                *)

RegisterBodiesLogin ==
    IF variant = "app" THEN {[email |-> S("user1@gmail.com"), password |-> S("12345678")]}
    ELSE RegisterBodiesCatalog

NextLogin ==
    \/ create_tables
    \/ seed_tables
    \/ seed_users
    \/ seed_commit
    \/ \E body \in RegisterBodiesLogin : register_user("c2", body)
    \/ \E body \in RegisterBodiesLogin : register_check("c2", body)
    \/ register_check_email("c2")
    \/ register_insert("c2")
    \/ register_commit("c2")
    \/ register_dump("c2")
    \/ \E body \in LoginBodies : login("c1", body)
    \/ login_by_email("c1")
    \/ get_products
    \/ \E c \in Clients, tok \in tokens : create_product(c, tok, FullBody)
    \/ \E c \in Clients : create_product_commit(c)
    \/ \E c \in Clients : create_product_dump(c)

SpecLogin == Init /\ [][NextLogin]_vars

-----------------------------------------------------------------------------
(* Creating products and reading them back. *)

\* A complete body, a complete body of falsy values, and a partial one.
CreateBodies ==
    {FullBody,
     [name |-> S(""), description |-> S(""), price |-> N(0), stock |-> N(0)],
     [name |-> S("Nuts"), stock |-> N(50)]}

NextFetch ==
    \/ create_tables
    \/ seed_tables
    \/ seed_users
    \/ seed_commit
    \/ register_check("c1", AdminLogin @@ [username |-> S("bob"), is_admin |-> B(TRUE)])
    \/ register_check_email("c1")
    \/ register_insert("c1")
    \/ register_commit("c1")
    \/ register_dump("c1")
    \/ login("c1", AdminLogin)
    \/ login_by_email("c1")
    \/ get_products
    \/ \E id \in ProductIds : get_product(id)
    \/ \E tok \in {NoToken} \cup tokens, body \in CreateBodies : create_product("c1", tok, body)
    \/ create_product_commit("c1")
    \/ create_product_dump("c1")
    \/ \E tok \in {NoToken} \cup tokens, id \in ProductIds :
          update_product("c2", tok, id, [price |-> N(599)])
    \/ update_product_commit("c2")
    \/ update_product_dump("c2")
    \/ \E tok \in {NoToken} \cup tokens, id \in ProductIds : delete_product("c2", tok, id)
    \/ delete_product_select("c2")
    \/ delete_product_commit("c2")

SpecFetch == Init /\ [][NextFetch]_vars

-----------------------------------------------------------------------------
(* Tokens while the users table changes under them. *)

NextStateless ==
    \/ create_tables
    \/ drop_tables
    \/ drop_commit
    \/ seed_tables
    \/ seed_users
    \/ seed_commit
    \/ register_user("c1", [email |-> S("user1@gmail.com"), password |-> S("12345678")])
    \/ \E body \in RegisterBodiesCatalog : register_check("c1", body)
    \/ register_check_email("c1")
    \/ register_insert("c1")
    \/ register_commit("c1")
    \/ register_dump("c1")
    \/ \E body \in {UserLogin, AdminLogin} : login("c1", body)
    \/ login_by_email("c1")
    \/ \E tok \in tokens : delete_product("c2", tok, 1)
    \/ delete_product_select("c2")
    \/ delete_product_commit("c2")
    \/ tick

SpecStateless == Init /\ [][NextStateless]_vars

-----------------------------------------------------------------------------
(* Updates whose body holds falsy values. *)

\* The falsy values of JSON: "", null, 0 (which is also 0.0) and false.
FalsyValues == {S(""), Null, N(0), B(FALSE)}

\* The complete body with one field replaced by a falsy value, the complete
\* body of falsy values, and partial bodies that hold one.
FalsyBodies ==
    {[FullBody EXCEPT ![k] = v] : k \in ProductColumns, v \in FalsyValues}
    \cup {[name |-> S(""), description |-> S(""), price |-> N(0), stock |-> N(0)],
          [price |-> N(0)],
          [name |-> S(""), stock |-> N(50)]}

\* ethan's update_product asks for no token: nobody registers here.
NextFalsy ==
    \/ create_tables
    \/ seed_tables
    \/ seed_users
    \/ seed_commit
    \/ login("c2", AdminLogin)
    \/ login_by_email("c2")
    \/ \E tok \in {NoToken} \cup tokens, body \in FalsyBodies : update_product("c1", tok, 1, body)
    \/ \E tok \in {NoToken} \cup tokens : update_product("c2", tok, 1, FullBody)
    \/ \E c \in Clients : update_product_commit(c)
    \/ \E c \in Clients : update_product_dump(c)

SpecFalsy == Init /\ [][NextFalsy]_vars

-----------------------------------------------------------------------------
(* app.py: who is an admin. *)

\* Register requests of a newcomer, the second asking to be an admin.
RegisterBodiesAdmins ==
    {[name |-> S("Eve"), email |-> S("eve@gmail.com"), password |-> S("12345678")],
     [name |-> S("Eve"), email |-> S("eve@gmail.com"), password |-> S("12345678"),
      is_admin |-> B(TRUE)]}

LoginBodiesAdmins ==
    {AdminLogin, [email |-> S("eve@gmail.com"), password |-> S("12345678")]}

NextAdmins ==
    \/ create_tables
    \/ drop_tables
    \/ drop_commit
    \/ seed_tables
    \/ seed_users
    \/ seed_commit
    \/ \E body \in RegisterBodiesAdmins : register_user("c1", body)
    \/ register_commit("c1")
    \/ register_dump("c1")
    \/ \E body \in LoginBodiesAdmins : login("c1", body)
    \/ login_by_email("c1")
    \/ \E tok \in tokens : create_product("c1", tok, FullBody)
    \/ create_product_commit("c1")
    \/ create_product_dump("c1")
    \/ \E tok \in tokens, id \in ProductIds : delete_product("c2", tok, id)
    \/ delete_product_select("c2")
    \/ delete_product_commit("c2")

SpecAdmins == Init /\ [][NextAdmins]_vars

-----------------------------------------------------------------------------
(* What the handlers answer, a statement that the database refuses          *)
(* included: two clients register, and products are created and updated,    *)
(* with a name the column takes and with one it does not.                   *)

\* 81 characters, one more than username = db.String(80) takes.
LongUsername ==
    S("aaaaaaaaaaaaaaaaaaaaaaaaaaaaaaaaaaaaaaaaaaaaaaaaaaaaaaaaaaaaaaaaaaaaaaaaaaaaaaaaa")

\* 101 characters, one more than name = db.String(100) takes.
LongName ==
    S("aaaaaaaaaaaaaaaaaaaaaaaaaaaaaaaaaaaaaaaaaaaaaaaaaaaaaaaaaaaaaaaaaaaaaaaaaaaaaaaaaaaaaaaaaaaaaaaaaaaaa")

RegisterBodiesResponses ==
    IF variant = "app"
    THEN {[email |-> S("user1@gmail.com"), password |-> S("12345678")],
          [name |-> LongName, email |-> S("eve@gmail.com"), password |-> S("12345678")]}
    ELSE {[username |-> S("ann"), email |-> S("user1@gmail.com"), password |-> S("12345678")],
          [username |-> LongUsername, email |-> S("eve@gmail.com"),
           password |-> S("12345678")]}

\* A complete product body, and the same with a name of 101 characters.
ProductBodiesResponses == {FullBody, [FullBody EXCEPT !.name = LongName]}

NextResponses ==
    \/ create_tables
    \/ seed_tables
    \/ seed_users
    \/ seed_commit
    \/ \E c \in Clients, body \in RegisterBodiesResponses : register_user(c, body)
    \/ \E c \in Clients, body \in RegisterBodiesResponses : register_check(c, body)
    \/ \E c \in Clients : register_check_email(c)
    \/ \E c \in Clients : register_insert(c)
    \/ \E c \in Clients : register_insert_wait(c)
    \/ \E c \in Clients : register_commit(c)
    \/ \E c \in Clients : register_dump(c)
    \/ \E body \in {UserLogin, AdminLogin} : login("c1", body)
    \/ login_by_email("c1")
    \/ get_products
    \/ \E tok \in tokens, body \in ProductBodiesResponses : create_product("c1", tok, body)
    \/ create_product_commit("c1")
    \/ create_product_dump("c1")
    \/ \E tok \in tokens, body \in ProductBodiesResponses : update_product("c1", tok, 1, body)
    \/ update_product_commit("c1")
    \/ update_product_dump("c1")

SpecResponses == Init /\ [][NextResponses]_vars

-----------------------------------------------------------------------------
(* Steps.  Every step of a request runs one statement of its handler.       *)

\* A request runs the statement `label` in this step.
At(label) == \E c \in Clients : pc[c] = label /\ pc'[c] # label

\* A request comes in and runs its first statement in this step: it goes on to
\* its second statement, or it is answered at once.
Intake == At("idle") \/ pc' = pc

-----------------------------------------------------------------------------
(* Properties of registration and login, checked under Spec.                *)

\* The request `req` names an email (or, in ethan, a username) that a row of
\* the users table holds.
Held(req) ==
    \E u \in users :
        \/ u.email = Get(req, "email")
        \/ variant = "ethan" /\ u.username = Get(req, "username")

\* What last.op is after a statement of a register request.
RegisterOps ==
    {"register", "register_check", "register_check_email", "register_insert",
     "register_commit"}

\* C1: a statement of a register request that carries a password, up to and
\* with its COMMIT, run while a user row holds the email (or username) of the
\* request, leaves the users table as it was; and when the request is answered
\* there, it is answered 400.
C1_DuplicateRegisterRejected ==
    [][(last'.op \in RegisterOps /\ ~At("register_dump") /\ Held(last'.req)
          /\ Truthy(Get(last'.req, "password")))
         => (last'.status \in {0, 400} /\ users' = users)]_vars

\* C2: no two rows of the users table have the same email, nor, in ethan, the
\* same username.
C2_UniqueEmailAndUsername ==
    \A u1 \in users : \A u2 \in users :
        u1.id # u2.id =>
            /\ u1.email # u2.email
            /\ variant = "ethan" => u1.username # u2.username

\* C3: once a registration with email e and password p has succeeded, a login
\* with e and p is answered 200 with a token whose subject is the id of the
\* registered row, whichever answer the handler can give.
C3_LoginReturnsRegisteredId ==
    (last.op = "register" /\ last.status = 201) =>
        \A r \in LoginResponses([email |-> last.req.email, password |-> last.req.password]) :
            /\ r.status = 200
            /\ r.body.token.sub = Str(last.body.id)

UserPublicFields == {"id", UserNameColumn, "email", "is_admin"}

\* C7: no response holds a password field or a stored hash: the body of a
\* successful register is the new row's public fields (id, name/username,
\* email, is_admin), the body of a login holds token, email and is_admin only,
\* the text of an error that register answers with holds no password
\* parameter, and neither the other answers of these two routes nor the
\* product listing, a product fetch or an answer of delete holds one.
C7_NoPasswordInResponses ==
    /\ last.op \in {"register", "login"} => "password" \notin DOMAIN last.body
    /\ (last.op = "register" /\ last.status = 500 /\ "message" \in DOMAIN last.body) =>
           "password" \notin DOMAIN last.body.message.parameters
    /\ (last.op = "register" /\ last.status = 201) =>
           \E u \in users : last.body = Restrict(u, UserPublicFields)
    /\ (last.op = "login" /\ last.status = 200) =>
           DOMAIN last.body = {"token", "email", "is_admin"}
    /\ \A row \in products_schema_dump(products) : "password" \notin DOMAIN row
    /\ \A id \in ProductIds :
           /\ "password" \notin DOMAIN GetProduct(id).body
           /\ "password" \notin DOMAIN DeleteSelect(id).body
           /\ "password" \notin DOMAIN DeleteProduct(id).body
    /\ \A tok \in Bearers : "password" \notin DOMAIN DeleteAuth(tok).body

\* The rows a login body names: by email, and in ethan by username too.
Named(body) ==
    {u \in users : \/ u.email = Get(body, "email")
                   \/ variant = "ethan" /\ u.username = Get(body, "username")}

\* A body with an identifier and a password, both non-empty.
Filled(body) ==
    /\ Truthy(Get(body, "password"))
    /\ Truthy(Get(body, "email")) \/ (variant = "ethan" /\ Truthy(Get(body, "username")))

UnknownIdentifier(body) == Filled(body) /\ Named(body) = {}

WrongPassword(body) ==
    /\ Filled(body)
    /\ Named(body) # {}
    /\ \A u \in Named(body) : ~check_password_hash(u.password, Get(body, "password"))

\* C8, the answers: a login that names no user and a login that names a user
\* with a password that is not theirs get one and the same answer, of status
\* 401 and with no token in it.
C8_SameAnswer ==
    tables =>
        \A b1 \in LoginBodies : \A b2 \in LoginBodies :
            (UnknownIdentifier(b1) /\ WrongPassword(b2)) =>
                \E r \in LoginResponses(b1) :
                    /\ r.status = 401
                    /\ "token" \notin DOMAIN r.body
                    /\ LoginResponses(b1) = {r}
                    /\ LoginResponses(b2) = {r}

\* C8, the answering statement: when the statement that answers a login runs
\* while the body names no user, or names users of whom none has that password,
\* the answer is that same 401.
C8_Answered ==
    (last'.op = "login" /\ tables
       /\ (UnknownIdentifier(last'.req) \/ WrongPassword(last'.req))) =>
        /\ last'.status = 401
        /\ "token" \notin DOMAIN last'.body
        /\ \A b \in LoginBodies :
               (UnknownIdentifier(b) \/ WrongPassword(b)) =>
                   LoginResponses(b) = {Response(last'.status, last'.body)}

\* C8, the effect: a login answered 401 changes neither table and issues no token.
C8_NoEffect ==
    (last'.op = "login" /\ last'.status = 401) =>
        (users' = users /\ products' = products /\ tokens' = tokens /\ userSeq' = userSeq)

\* C8: the two failures of login cannot be told apart, and neither changes
\* stored state or issues a token.
C8_LoginFailuresAlike == [](C8_SameAnswer) /\ [][C8_Answered /\ C8_NoEffect]_vars

\* C8's case: a login naming an existing user with a wrong password has been
\* answered, while another identifier names no user.
C8_Witness ==
    /\ last.op = "login"
    /\ last.status = 401
    /\ WrongPassword(last.req)
    /\ \E b \in LoginBodies : UnknownIdentifier(b)

-----------------------------------------------------------------------------
(* Properties of the product endpoints. *)

\* The bearer token passes @jwt_required().
ValidToken(tok) == jwt_required(tok).status = 0

\* The user row the token's subject names: a set of at most one row.
Caller(tok) == UserById(get_jwt_identity(tok))

\* C4, the statements of DELETE: the first, with a valid token of a user whose
\* is_admin is false, answers 401 or 403 and leaves the products table as it
\* was, and with a valid token of a user whose is_admin is true lets the
\* request go on; the last removes the row of the id.
C4_DeleteStep ==
    /\ (Intake /\ last'.op \in {"delete_product", "delete_product_auth"}
          /\ ValidToken(last'.req.tok) /\ tables) =>
           /\ (\E u \in Caller(last'.req.tok) : u.is_admin = B(FALSE)) =>
                  (last'.status \in {401, 403} /\ products' = products)
           /\ (\E u \in Caller(last'.req.tok) : u.is_admin = B(TRUE)) =>
                  last'.status = 0
    /\ (At("delete_commit") /\ tables) =>
           (last'.status = 200 /\ products' = products \ ProductById(last'.req.id))

\* C4, the fetch that follows: once a DELETE has removed a product, GET of the
\* same id is answered 404.
C4_FetchAfterDelete ==
    (last.op = "delete_product" /\ last.status = 200) =>
        GetProduct(last.req.id).status = 404

\* C4: only an admin deletes a product, and a deleted product is not found.
C4_AdminOnlyDelete == [](C4_FetchAfterDelete) /\ [][C4_DeleteStep]_vars

\* C5: with the tables in place, POST /products, PUT/PATCH /products/<id> and
\* DELETE /products/<id> with no token or with a token that does not pass the
\* check are answered 401 by their first statement and leave the products
\* table unchanged.
C5_MutationsNeedToken ==
    [][(Intake
          /\ last'.op \in {"create_product", "create_product_insert",
                           "update_product", "update_product_select",
                           "delete_product", "delete_product_auth"}
          /\ tables /\ ~ValidToken(last'.req.tok))
         => (last'.status = 401 /\ products' = products)]_vars

\* C6: for every issued token that passes the token check, the admin predicate
\* raises nothing; it is true only if the user row of the token's subject exists
\* with is_admin true; and when that row does not exist it is false and DELETE
\* is answered 401 or 403.
C6_AdminPredicate ==
    tables =>
        \A tok \in tokens : ValidToken(tok) =>
            /\ ~AuthAsAdmin(tok).raised
            /\ Truthy(AuthAsAdmin(tok).value) => \E u \in Caller(tok) : u.is_admin = B(TRUE)
            /\ Caller(tok) = {} =>
                   /\ ~Truthy(AuthAsAdmin(tok).value)
                   /\ DeleteAuth(tok).status \in {401, 403}

\* The answer is one of @jwt_required(): the handler was not entered.
TurnedAway(r) == r.status \in {401, 422} /\ "msg" \in DOMAIN r.body

\* The answer of @jwt_required() to a token past its expiry.
Expired(r) == r.status = 401 /\ r.body = [msg |-> "Token has expired"]

Accepted(r) == ~TurnedAway(r)

\* POST /products up to the INSERT of its commit.
CreateAnswer(tok, body) ==
    IF variant = "app" THEN AddProduct(tok, body) ELSE CreateProduct(tok, body)

\* C9: a token issued by login at time T expires at T + 1 day; for every issued
\* token, every token-protected endpoint accepts it while the clock is before
\* the expiry, and answers 401 once the clock is past it.
C9_TokenLifetime ==
    /\ (last.op = "login" /\ last.status = 200) => last.body.token.exp = now + Day
    /\ \A tok \in tokens :
        /\ now < tok.exp =>
            /\ Accepted(DeleteAuth(tok))
            /\ \A body \in ProductBodies : Accepted(CreateAnswer(tok, body))
            /\ UpdateProtected =>
                   \A id \in ProductIds : \A body \in ProductBodies :
                       Accepted(UpdateProduct(tok, id, body))
            /\ variant = "ethan" => Accepted(IsAdmin(tok))
        /\ now > tok.exp =>
            /\ Expired(DeleteAuth(tok))
            /\ \A body \in ProductBodies : Expired(CreateAnswer(tok, body))
            /\ UpdateProtected =>
                   \A id \in ProductIds : \A body \in ProductBodies :
                       Expired(UpdateProduct(tok, id, body))
            /\ variant = "ethan" => Expired(IsAdmin(tok))

\* C9's case: a request made after the expiry of its token has been turned away.
C9_Witness ==
    /\ last.op = "delete_product"
    /\ last.req.tok \in tokens
    /\ now > last.req.tok.exp
    /\ last.status = 401

\* A body that holds some of name, description, price and stock, not all.
Partial(body) ==
    /\ DOMAIN body # {}
    /\ DOMAIN body \subseteq ProductColumns
    /\ DOMAIN body # ProductColumns

\* C10: every statement of an update of an existing product with a partial
\* body, by a caller that passes the token check, goes on or answers 200; the
\* commit sets the fields of the body and leaves the other fields of the row
\* and every other row as they were, and no other statement changes a row.
C10_PartialUpdate ==
    [][(last'.op \in {"update_product", "update_product_select", "update_product_commit"}
          /\ Partial(last'.req.body) /\ tables
          /\ ValidToken(last'.req.tok) /\ ProductById(last'.req.id) # {})
         => /\ last'.status \in {0, 200}
            /\ \E p \in ProductById(last'.req.id) :
                   products' = IF At("update_commit")
                               THEN (products \ {p}) \cup
                                    {[k \in DOMAIN p |-> IF k \in DOMAIN last'.req.body
                                                         THEN last'.req.body[k] ELSE p[k]]}
                               ELSE products]_vars

-----------------------------------------------------------------------------
(* Requests for a product id that no row holds. *)

\* The body is a single message saying that the product was not found.
NotFoundMessage(body, product_id) ==
    \/ body = DoesNotExist(product_id)
    \/ body = [message |-> "Product not found"]

NotFound(r, product_id) == r.status = 404 /\ NotFoundMessage(r.body, product_id)

\* C11, GET and DELETE: a GET of an id that no product row holds, and the SELECT
\* of a DELETE that finds no row of its id (the caller has passed the admin
\* check), are answered 404 with a not-found message and leave the products
\* table as it was.
C11_MissingIdStep ==
    /\ (last'.op = "get_product" /\ tables /\ ProductById(last'.req.id) = {}) =>
           (NotFound(last', last'.req.id) /\ products' = products)
    /\ (At("delete_select") /\ tables /\ ProductById(last'.req.id) = {}) =>
           (NotFound(last', last'.req.id) /\ products' = products)

\* C11, PUT/PATCH: an update of an id that no product row holds, by a caller
\* whose token passes the check, is answered 404 with a not-found message
\* whatever the body.
C11_MissingIdUpdate ==
    tables =>
        \A id \in ProductIds : ProductById(id) = {} =>
            \A tok \in tokens : ValidToken(tok) =>
                \A body \in ProductBodies : NotFound(UpdateProduct(tok, id, body), id)

\* C11: GET, PUT/PATCH and DELETE of a product id that is not in the products
\* table each answer 404 with a not-found message and change no product row.
C11_MissingProductIs404 == [](C11_MissingIdUpdate) /\ [][C11_MissingIdStep]_vars

-----------------------------------------------------------------------------
(* A created product, fetched. *)

\* GET /products/<id> for the id of the row that the POST /products of client
\* c has written.
FetchCreated(c) == GetProduct(pend[c].obj.id)

\* The body of GET /products.
Listing == products_schema_dump(products)

\* C12, the create step: when POST /products with a body of name, description,
\* price and stock has committed its row, a GET of the new id is answered 200
\* with those four values and the listing holds that record.
C12_CreateStep ==
    \A c \in Clients :
        (pc[c] = "create_commit" /\ pc'[c] = "create_dump"
           /\ DOMAIN pend[c].req.body = ProductColumns) =>
            /\ FetchCreated(c)'.status = 200
            /\ Restrict(FetchCreated(c)'.body, ProductColumns) = pend[c].req.body
            /\ FetchCreated(c)'.body \in Listing'

\* The step is the commit of an update or of a delete of product `id`.
Touches(id) ==
    \E c \in Clients : /\ pc[c] \in {"update_commit", "delete_commit"}
                       /\ pc'[c] # pc[c]
                       /\ pend[c].req.id = id

\* C12, in between: for every existing id, a step that is neither the commit
\* of an update or of a delete of that id nor the end of `flask drop` leaves
\* the answer of GET for the id, and its record in the listing, as they were:
\* updates and deletes of the other products included.
C12_KeptStep ==
    (last'.op # "drop" /\ tables) =>
        \A id \in ProductIds : (ProductById(id) # {} /\ ~Touches(id)) =>
            /\ GetProduct(id)' = GetProduct(id)
            /\ GetProduct(id).body \in Listing'

\* C12: a product created with a valid token is fetched with the submitted
\* values and is listed, until an update or a delete of it.
C12_CreateThenFetch == [][C12_CreateStep /\ C12_KeptStep]_vars

\* C12's case: a complete body was posted with a valid token and answered 201,
\* next to a row that was there before, and the new row is as it was posted.
C12_Witness ==
    /\ last.op = "create_product"
    /\ last.status = 201
    /\ ValidToken(last.req.tok)
    /\ DOMAIN last.req.body = ProductColumns
    /\ Cardinality(products) >= 2
    /\ \E p \in products :
           /\ GetProduct(p.id).status = 200
           /\ Restrict(GetProduct(p.id).body, ProductColumns) = last.req.body

-----------------------------------------------------------------------------
(* Registration with a field missing or a short password. *)

\* The identity fields a register request must carry.
RequiredFields == IF variant = "app" THEN {"email", "password"}
                  ELSE {"username", "email", "password"}

TooShort == Response(400, [message |-> "Password must be at least 8 characters"])

\* C13, the first statement of register: with the tables in place, a register
\* request that lacks a required identity field, or that in ethan carries a
\* password of fewer than 8 characters, is answered 400 and adds no user row;
\* and a register request with every field and a password of exactly 8
\* characters is not turned away for the length of its password.
C13_RegisterStep ==
    (Intake /\ last'.op \in {"register", "register_check", "register_insert"}) =>
        (tables =>
            /\ (RequiredFields \ DOMAIN last'.req # {}) =>
                   (last'.status = 400 /\ users' = users)
            /\ (variant = "ethan" /\ RequiredFields \subseteq DOMAIN last'.req
                  /\ Len(last'.req.password[2]) < 8) =>
                   (last'.status = 400 /\ users' = users)
            /\ (RequiredFields \subseteq DOMAIN last'.req
                  /\ Len(last'.req.password[2]) = 8) =>
                   Response(last'.status, last'.body) # TooShort)

\* C13: a register request with a required field missing or a short password
\* returns 400 and creates no user row; 8 characters are long enough.
C13_MissingOrShortRejected == [][C13_RegisterStep]_vars

-----------------------------------------------------------------------------
(* Exceptions that leave a handler. *)

\* The requests a route handler answers.
HandlerOps ==
    {"register", "login", "get_products", "get_product", "create_product",
     "update_product", "delete_product", "is_admin"}

\* The 500 that ethan's register returns from its own `except Exception`.
RegisterOwn500 ==
    last.op = "register" /\ last.status = 500 /\ DOMAIN last.body = {"message"}

\* C14: with the tables in place, every request that a route handler has
\* answered got a status the handler chose (200, 201, 400, 401, 403 or 404, or
\* the 500 of register's own except branch): no exception left the handler.
C14_NoUnhandledFault ==
    (tables /\ last.op \in HandlerOps) =>
        (last.status \in {200, 201, 400, 401, 403, 404} \/ RegisterOwn500)

-----------------------------------------------------------------------------
(* Tokens while the users table changes under them. *)

\* The token check of every protected endpoint lets `tok` through.
PassesEverywhere(tok) ==
    /\ Accepted(DeleteAuth(tok))
    /\ \A body \in ProductBodies : Accepted(CreateAnswer(tok, body))
    /\ UpdateProtected =>
           \A id \in ProductIds : \A body \in ProductBodies :
               Accepted(UpdateProduct(tok, id, body))
    /\ variant = "ethan" => Accepted(IsAdmin(tok))

\* C15: every issued token passes the token check of every protected endpoint
\* while the clock is before its expiry, whatever the users table holds by
\* then; and DELETE gets past the admin check only when the row that the
\* token's subject names now has is_admin true.
C15_StatelessTokens ==
    \A tok \in tokens : now < tok.exp =>
        /\ PassesEverywhere(tok)
        /\ tables =>
               /\ (\E u \in Caller(tok) : u.is_admin = B(TRUE)) => DeleteAuth(tok).status = 0
               /\ (\A u \in Caller(tok) : u.is_admin # B(TRUE)) => DeleteAuth(tok).status # 0

\* C15's case: a DELETE carried a token that passes the check although the
\* row of its subject is gone, next to an existing product.
C15_Witness ==
    /\ last.op = "delete_product"
    /\ last.req.tok \in tokens
    /\ now < last.req.tok.exp
    /\ tables
    /\ Caller(last.req.tok) = {}
    /\ ProductById(last.req.id) # {}
    /\ ~TurnedAway(last)

-----------------------------------------------------------------------------
(* Two registrations of ethan_app_comments.py that interleave. *)

\* C16: when a register request of ethan that has passed both pre-queries
\* runs its INSERT, or ends the wait of its INSERT, with the tables in place:
\* if another request has meanwhile committed a row with the same username or
\* email, it is answered 400 and adds no row; otherwise it waits or goes on to
\* its COMMIT, which adds exactly one row, and to its 201.  So of two such
\* requests exactly one creates a row and the other gets a 400.
C16_InterleavedRegister ==
    [][\A c \in Clients :
          /\ (variant = "ethan" /\ tables /\ pc'[c] # pc[c]
                /\ pc[c] \in {"register_insert", "register_wait"}) =>
                 IF Held(pend[c].req)
                 THEN last'.status = 400 /\ users' = users
                 ELSE pc'[c] \in {"register_wait", "register_commit"} /\ users' = users
          /\ (variant = "ethan" /\ pc[c] = "register_commit" /\ pc'[c] # pc[c]) =>
                 /\ pc'[c] = "register_dump"
                 /\ users \subseteq users'
                 /\ Cardinality(users') = Cardinality(users) + 1]_vars

-----------------------------------------------------------------------------
(* Updates whose body holds falsy values. *)

\* C17: the commit of a PUT/PATCH leaves each of name, description, price and
\* stock that the body holds with a falsy value stored as it was before.
C17_FalsyKeepsValue ==
    [][(At("update_commit") /\ tables) =>
          \A p \in ProductById(last'.req.id) :
              \E q \in products' :
                  /\ q.id = p.id
                  /\ \A k \in ProductColumns :
                         (k \in DOMAIN last'.req.body /\ ~Truthy(last'.req.body[k])) =>
                             q[k] = p[k]]_vars

\* C17's case: an update was answered 200 for a body that holds a falsy value
\* for one field and sets another.
C17_Witness ==
    /\ last.op = "update_product"
    /\ last.status = 200
    /\ \E k \in DOMAIN last.req.body : ~Truthy(last.req.body[k])
    /\ \E p \in ProductById(last.req.id) :
           /\ \E k \in DOMAIN last.req.body : ~Truthy(last.req.body[k]) /\ Truthy(p[k])
           /\ \E k \in DOMAIN last.req.body : Truthy(last.req.body[k]) /\ p[k] = last.req.body[k]

-----------------------------------------------------------------------------
(* app.py: who is an admin. *)

\* The user rows with is_admin true.
Admins == {u \in users : u.is_admin = B(TRUE)}

\* What last.op is after a statement of a request that is not its last.
StatementOps ==
    {"register_check", "register_check_email", "register_insert", "register_commit",
     "login_by_username", "create_product_insert", "create_product_commit",
     "update_product_select", "update_product_commit",
     "delete_product_auth", "delete_product_select"}

\* C18: in app.py a statement of a request leaves the set of admin rows as it
\* was: the commit of register_user adds one row with is_admin false whatever
\* the body asks for, no other statement changes the users table, and a DELETE
\* removes a product only when the token's subject names a row that is an admin.
C18_AdminsFixedOverHttp ==
    [][(variant = "app" /\ last'.op \in HandlerOps \cup StatementOps) =>
          /\ Admins' = Admins
          /\ (last'.op = "register_commit") =>
                 /\ users \subseteq users'
                 /\ \E u \in users' \ users : users' \ users = {u} /\ u.is_admin = B(FALSE)
          /\ (last'.op # "register_commit") => users' = users
          /\ (last'.op = "delete_product" /\ products' # products) =>
                 \E u \in Caller(last'.req.tok) : u \in Admins]_vars

\* C18's case: app.py has answered 201 to a register request that asked for
\* is_admin true, next to a seeded admin.
C18_Witness ==
    /\ variant = "app"
    /\ last.op = "register"
    /\ last.status = 201
    /\ Get(last.req, "is_admin") = B(TRUE)
    /\ Admins # {}
    /\ \E u \in users : u.id = last.body.id /\ u.is_admin = B(FALSE)

====
